---------------------------- MODULE Spec2Model ----------------------------
(***************************************************************************)
(* Legacy signing of user commands (payments, stake delegations) and of    *)
(* strings: the translation of JSON commands into typed commands, their    *)
(* encoding as a legacy hash input, and the sign / verify entry points.    *)
(*                                                                         *)
(* A value that a function returns or an error that it throws is a record  *)
(* Ok(v) or Throw(e).  A JSON numeric string is a sequence of characters,  *)
(* a bigint is its binary expansion (least significant bit first, no       *)
(* leading zero bit), a text is a sequence of code points, a base58 key    *)
(* string is a name decoded through a key book, and a field element or     *)
(* scalar made by the signature scheme is a symbolic term.                 *)
(*                                                                         *)
(* The fetch layer (lib/fetch.ts) keeps the state of the program: the      *)
(* configured endpoints, the caches of accounts and networks, and the      *)
(* accounts and networks marked to be fetched.  A JavaScript object used   *)
(* as a dictionary is a function of its keys; an asynchronous call is an   *)
(* action for its synchronous start and one for each answer it awaits.     *)
(***************************************************************************)
EXTENDS Integers, Sequences, FiniteSets, TLC

\* The capacity of the fixed-length memo encoding, in bytes (scaled down).
MemoCapacity == 2

\* The number of calls made to the fetch layer in a run.
MaxCalls == 3

\* The number of entries in the response to a query of events.
MaxEvents == 3

VARIABLES
  signing,     \* the signing call made in this session, with what it built and its outcome
  verifying,   \* the verification call made after it, with its outcome
  defaultGraphqlEndpoint,
  archiveGraphqlEndpoint,
  accountCache,
  networkCache,
  accountsToFetch,
  networksToFetch,
  fetching,    \* the call of fetchAccount or fetchEvents in progress or returned
  missing,     \* the call of fetchMissingData in progress or returned
  calls        \* the number of calls made to the fetch layer

\* the state that the fetch layer shares between its calls
shared == <<defaultGraphqlEndpoint, archiveGraphqlEndpoint,
            accountCache, networkCache, accountsToFetch, networksToFetch>>

\* the fetch layer: its shared state and its calls
fetchLayer == <<shared, fetching, missing, calls>>

vars == <<signing, verifying, fetchLayer>>

-----------------------------------------------------------------------------
(* Results and errors *)

Ok(v) == [thrown |-> FALSE, value |-> v]
Throw(e) == [thrown |-> TRUE, error |-> e]

None == [op |-> "none"]

-----------------------------------------------------------------------------
(* Primitive providers: bits and bytes *)

RECURSIVE Flatten(_)
Flatten(seqs) ==
  IF seqs = <<>> THEN <<>> ELSE Head(seqs) \o Flatten(Tail(seqs))

Reverse(s) == [i \in 1..Len(s) |-> s[Len(s) + 1 - i]]

\* the 8 bits of one byte, least significant first
ByteBits(byte) == [i \in 1..8 |-> (byte \div (2 ^ (i - 1))) % 2 = 1]

bytesToBits(bytes) == Flatten([i \in 1..Len(bytes) |-> ByteBits(bytes[i])])

\* UTF-8 encoding of one code point (below 65536)
Utf8(cp) ==
  IF cp < 128 THEN <<cp>>
  ELSE IF cp < 2048 THEN <<192 + (cp \div 64), 128 + (cp % 64)>>
  ELSE <<224 + (cp \div 4096), 128 + ((cp \div 64) % 64), 128 + (cp % 64)>>

stringToBytes(string) == Flatten([i \in 1..Len(string) |-> Utf8(string[i])])

-----------------------------------------------------------------------------
(* Primitive providers: fixed-width unsigned integers *)

DecimalDigits == <<"0", "1", "2", "3", "4", "5", "6", "7", "8", "9">>

IsDigit(c) == \E i \in 1..10 : DecimalDigits[i] = c

DigitValue(c) == (CHOOSE i \in 1..10 : DecimalDigits[i] = c) - 1

\* a bigint is five limbs of 16 bits, least significant first, and a flag
\* set when the value does not fit them
Zero == [limbs |-> <<0, 0, 0, 0, 0>>, overflow |-> FALSE]

\* n * 10 + d
PushDigit(n, d) ==
  LET l == n.limbs
      t1 == l[1] * 10 + d
      t2 == l[2] * 10 + (t1 \div 65536)
      t3 == l[3] * 10 + (t2 \div 65536)
      t4 == l[4] * 10 + (t3 \div 65536)
      t5 == l[5] * 10 + (t4 \div 65536)
  IN  [limbs |-> <<t1 % 65536, t2 % 65536, t3 % 65536, t4 % 65536, t5 % 65536>>,
       overflow |-> n.overflow \/ t5 >= 65536]

\* the value of a decimal numeral, most significant digit first
RECURSIVE Decimal(_, _, _)
Decimal(x, i, n) ==
  IF i > Len(x) THEN n ELSE Decimal(x, i + 1, PushDigit(n, DigitValue(x[i])))

BitOf(limbs, i) == (limbs[((i - 1) \div 16) + 1] \div (2 ^ ((i - 1) % 16))) % 2 = 1

\* BigInt(x) of a string: a decimal numeral, with an optional minus sign
WithSign(neg, n) == Ok([negative |-> neg /\ n # Zero, limbs |-> n.limbs, overflow |-> n.overflow])

Numeral(x, first) ==
  IF (first = 2 /\ Len(x) = 1) \/ \E i \in first..Len(x) : ~IsDigit(x[i])
  THEN Throw("SyntaxError")
  ELSE WithSign(first = 2, Decimal(x, first, Zero))

BigInt(x) == Numeral(x, IF Len(x) > 0 /\ x[1] = "-" THEN 2 ELSE 1)

\* a value outside 0 .. 2^width - 1 is rejected
CheckRange(n, width) ==
  IF n.thrown THEN Throw("MalformedNumeric")
  ELSE IF \/ n.value.negative
          \/ n.value.overflow
          \/ \E i \in (width + 1)..80 : BitOf(n.value.limbs, i)
  THEN Throw("MalformedNumeric")
  ELSE Ok(n.value.limbs)

UnsignedFromJSON(x, width) == CheckRange(BigInt(x), width)

\* the bits of a value, least significant first
UnsignedToBits(v, width) == [i \in 1..width |-> BitOf(v, i)]

UInt64_fromJSON(x) == UnsignedFromJSON(x, 64)
UInt32_fromJSON(x) == UnsignedFromJSON(x, 32)
UInt64_toBits(v) == UnsignedToBits(v, 64)
UInt32_toBits(v) == UnsignedToBits(v, 32)
UInt64(n) == <<n % 65536, n \div 65536, 0, 0, 0>>


-----------------------------------------------------------------------------
(* Primitive providers: keys, memo, hash input, signature scheme *)

\* base58 public key strings and the curve points they decode to
PublicKeyBook ==
  [B62qA |-> [x |-> 11, isOdd |-> FALSE],
   B62qB |-> [x |-> 12, isOdd |-> TRUE],
   B62qC |-> [x |-> 11, isOdd |-> TRUE]]

\* base58 private key strings and the scalars they decode to
PrivateKeyBook == [EKEA |-> 1, EKEB |-> 2]

PublicKey_fromBase58(s) ==
  IF s \in DOMAIN PublicKeyBook THEN Ok(PublicKeyBook[s]) ELSE Throw("MalformedKey")

PublicKey_fromJSON(s) == PublicKey_fromBase58(s)

PrivateKey_fromBase58(s) ==
  IF s \in DOMAIN PrivateKeyBook THEN Ok(PrivateKeyBook[s]) ELSE Throw("MalformedKey")

\* the public key of a private key (the scalar times the generator)
PrivateKey_toPublicKey(d) == IF d = 1 THEN PublicKeyBook.B62qA ELSE PublicKeyBook.B62qB

PublicKey_toInputLegacy(pk) == [fields |-> <<pk.x>>, bits |-> <<pk.isOdd>>]

\* the fixed-length memo: a tag byte, the length, the text, zero padding
MemoOfBytes(bytes) ==
  IF Len(bytes) > MemoCapacity THEN Throw("InvalidMemo")
  ELSE Ok(<<1, Len(bytes)>> \o bytes \o [i \in 1..(MemoCapacity - Len(bytes)) |-> 0])

Memo_fromString(memo) == MemoOfBytes(stringToBytes(memo))

Memo_toBits(memo) == bytesToBits(memo)

HashInputLegacy_bits(bits) == [fields |-> <<>>, bits |-> bits]

HashInputLegacy_append(input1, input2) ==
  [fields |-> input1.fields \o input2.fields, bits |-> input1.bits \o input2.bits]

\* [a, b, ...].reduce(HashInputLegacy.append)
RECURSIVE ReduceAppend(_, _)
ReduceAppend(acc, rest) ==
  IF rest = <<>> THEN acc
  ELSE ReduceAppend(HashInputLegacy_append(acc, Head(rest)), Tail(rest))

\* the hash of a message under a key, a nonce point and a network: an ideal
\* (collision-free) hash is the term of its arguments
hashMessageLegacy(message, publicKey, r, networkId) ==
  [message |-> message, publicKey |-> publicKey, r |-> r, networkId |-> networkId]

\* the nonce of a signature, derived from the message and the keys
deriveNonceLegacy(message, publicKey, privateKey, networkId) ==
  [message |-> message, publicKey |-> publicKey,
   privateKey |-> privateKey, networkId |-> networkId]

\* Schnorr signature: r is the x coordinate of k.G and s is k + e.d
Respond(k, message, publicKey, privateKey, networkId) ==
  [r |-> [scale |-> k],
   s |-> [k |-> k, d |-> privateKey,
          e |-> hashMessageLegacy(message, publicKey, [scale |-> k], networkId)]]

signLegacyWith(message, publicKey, privateKey, networkId) ==
  Respond(deriveNonceLegacy(message, publicKey, privateKey, networkId),
          message, publicKey, privateKey, networkId)

signLegacy(message, privateKey, networkId) ==
  signLegacyWith(message, PrivateKey_toPublicKey(privateKey), privateKey, networkId)

\* s.G - e.publicKey is the point of x coordinate r
verifyLegacy(signature, message, publicKey, networkId) ==
  /\ DOMAIN signature.s = {"k", "e", "d"}
  /\ DOMAIN signature.r = {"scale"}
  /\ signature.r.scale = signature.s.k
  /\ PrivateKey_toPublicKey(signature.s.d) = publicKey
  /\ signature.s.e = hashMessageLegacy(message, publicKey, signature.r, networkId)

\* a field element or a scalar as a decimal string, and back
Signature_toJSON(signature) ==
  [field |-> <<"decimal", signature.r>>, scalar |-> <<"decimal", signature.s>>]

Signature_fromJSON(json) ==
  IF \/ {"field", "scalar"} \ DOMAIN json # {}
     \/ json.field[1] # "decimal"
     \/ json.scalar[1] # "decimal"
  THEN Throw("MalformedSignature")
  ELSE Ok([r |-> json.field[2], s |-> json.scalar[2]])

-----------------------------------------------------------------------------
(* Canonical encoder *)

Tag == {"Payment", "StakeDelegation"}

\* [int & 4, int & 2, int & 1].map(Boolean)
TagBits(int) == <<(int \div 4) % 2 = 1, (int \div 2) % 2 = 1, int % 2 = 1>>

TagCodes == [Payment |-> 0, StakeDelegation |-> 1]

\* a tag that is not a key of the table looks up undefined, and undefined & m is 0
tagToInput_lsbFirst(tag) ==
  HashInputLegacy_bits(Reverse(TagBits(IF tag \in DOMAIN TagCodes THEN TagCodes[tag] ELSE 0)))

tagToInput(tag) ==
  HashInputLegacy_bits(TagBits(IF tag \in DOMAIN TagCodes THEN TagCodes[tag] ELSE 0))

legacyTokenId == <<TRUE>> \o [i \in 1..63 |-> FALSE]

\* variants of bodyToInputLegacy: receiver before source; the amount left out
bodyToInputLegacy_receiverFirst(body) ==
  ReduceAppend(tagToInput(body.tag),
               <<PublicKey_toInputLegacy(body.receiver),
                 PublicKey_toInputLegacy(body.source),
                 HashInputLegacy_bits(legacyTokenId),
                 HashInputLegacy_bits(UInt64_toBits(body.amount)),
                 HashInputLegacy_bits(<<FALSE>>)>>)

bodyToInputLegacy_noAmount(body) ==
  ReduceAppend(tagToInput(body.tag),
               <<PublicKey_toInputLegacy(body.source),
                 PublicKey_toInputLegacy(body.receiver),
                 HashInputLegacy_bits(legacyTokenId),
                 HashInputLegacy_bits(UInt64_toBits(UInt64(0))),
                 HashInputLegacy_bits(<<FALSE>>)>>)

bodyToInputLegacy(body) ==
  ReduceAppend(tagToInput(body.tag),
               <<PublicKey_toInputLegacy(body.source),
                 PublicKey_toInputLegacy(body.receiver),
                 HashInputLegacy_bits(legacyTokenId),
                 HashInputLegacy_bits(UInt64_toBits(body.amount)),
                 HashInputLegacy_bits(<<FALSE>>)>>)

\* variant of commonToInputLegacy: valid-until before the nonce
commonToInputLegacy_validUntilFirst(common) ==
  ReduceAppend(HashInputLegacy_bits(UInt64_toBits(common.fee)),
               <<HashInputLegacy_bits(legacyTokenId),
                 PublicKey_toInputLegacy(common.feePayer),
                 HashInputLegacy_bits(UInt32_toBits(common.validUntil)),
                 HashInputLegacy_bits(UInt32_toBits(common.nonce)),
                 HashInputLegacy_bits(Memo_toBits(common.memo))>>)

commonToInputLegacy(common) ==
  ReduceAppend(HashInputLegacy_bits(UInt64_toBits(common.fee)),
               <<HashInputLegacy_bits(legacyTokenId),
                 PublicKey_toInputLegacy(common.feePayer),
                 HashInputLegacy_bits(UInt32_toBits(common.nonce)),
                 HashInputLegacy_bits(UInt32_toBits(common.validUntil)),
                 HashInputLegacy_bits(Memo_toBits(common.memo))>>)

\* variant of toInputLegacy: the body before the common part
toInputLegacy_bodyFirst(command) ==
  HashInputLegacy_append(bodyToInputLegacy(command.body),
                         commonToInputLegacy(command.common))

toInputLegacy(command) ==
  HashInputLegacy_append(commonToInputLegacy(command.common),
                         bodyToInputLegacy(command.body))

ReversedByteBits(bytes) ==
  Flatten([i \in 1..Len(bytes) |-> Reverse(bytesToBits(<<bytes[i]>>))])

\* variants of stringToInput: the bits of a byte not reversed; the first byte only
stringToInput_lsbFirst(string) == HashInputLegacy_bits(bytesToBits(stringToBytes(string)))

stringToInput_firstByte(string) ==
  HashInputLegacy_bits(ReversedByteBits(SubSeq(stringToBytes(string), 1, 1)))

stringToInput(string) == HashInputLegacy_bits(ReversedByteBits(stringToBytes(string)))

-----------------------------------------------------------------------------
(* Domain model translator *)

\* the fields of an object literal are evaluated in their order: the first
\* evaluation that throws ends it
Common(fee, feePayer, nonce, validUntil, memo) ==
  IF fee.thrown THEN fee
  ELSE IF feePayer.thrown THEN feePayer
  ELSE IF nonce.thrown THEN nonce
  ELSE IF validUntil.thrown THEN validUntil
  ELSE IF memo.thrown THEN memo
  ELSE Ok([fee |-> fee.value, feePayer |-> feePayer.value, nonce |-> nonce.value,
           validUntil |-> validUntil.value, memo |-> memo.value])

commonFromJson(c) ==
  Common(UInt64_fromJSON(c.fee), PublicKey_fromJSON(c.feePayer),
         UInt32_fromJSON(c.nonce), UInt32_fromJSON(c.validUntil),
         Memo_fromString(c.memo))

UserCommand(common, tag, source, receiver, amount) ==
  IF common.thrown THEN common
  ELSE IF source.thrown THEN source
  ELSE IF receiver.thrown THEN receiver
  ELSE IF amount.thrown THEN amount
  ELSE Ok([common |-> common.value,
           body |-> [tag |-> tag, source |-> source.value,
                     receiver |-> receiver.value, amount |-> amount.value]])

\* destructuring { common, body: { ... } } of a record without a body throws
paymentFromJson(payment) ==
  IF "body" \notin DOMAIN payment THEN Throw("TypeError")
  ELSE UserCommand(commonFromJson(payment.common), "Payment",
                   PublicKey_fromJSON(payment.body.source),
                   PublicKey_fromJSON(payment.body.receiver),
                   UInt64_fromJSON(payment.body.amount))

\* variant of delegationFromJson: the amount of the JSON body is read when present
delegationFromJson_readAmount(delegation) ==
  IF "body" \notin DOMAIN delegation THEN Throw("TypeError")
  ELSE UserCommand(commonFromJson(delegation.common), "StakeDelegation",
                   PublicKey_fromJSON(delegation.body.delegator),
                   PublicKey_fromJSON(delegation.body.newDelegate),
                   IF "amount" \in DOMAIN delegation.body
                   THEN UInt64_fromJSON(delegation.body.amount)
                   ELSE Ok(UInt64(0)))

delegationFromJson(delegation) ==
  IF "body" \notin DOMAIN delegation THEN Throw("TypeError")
  ELSE UserCommand(commonFromJson(delegation.common), "StakeDelegation",
                   PublicKey_fromJSON(delegation.body.delegator),
                   PublicKey_fromJSON(delegation.body.newDelegate),
                   Ok(UInt64(0)))

-----------------------------------------------------------------------------
(* Signing / verification orchestrator *)

\* sign the input with the decoded key, unless decoding it threw
SignInput(input, privateKey, networkId) ==
  IF privateKey.thrown THEN privateKey
  ELSE Ok(Signature_toJSON(signLegacy(input, privateKey.value, networkId)))

\* variant of VerifyInput: the input is not looked at, the signature is checked
\* against the message it was made for
VerifyInput_anyInput(input, signature, publicKey, networkId) ==
  IF signature.thrown THEN signature
  ELSE IF publicKey.thrown THEN publicKey
  ELSE IF "e" \notin DOMAIN signature.value.s THEN Ok(FALSE)
  ELSE Ok(verifyLegacy(signature.value, signature.value.s.e.message,
                       publicKey.value, networkId))

\* verify the input with the decoded signature and key, unless decoding threw
VerifyInput(input, signature, publicKey, networkId) ==
  IF signature.thrown THEN signature
  ELSE IF publicKey.thrown THEN publicKey
  ELSE Ok(verifyLegacy(signature.value, input, publicKey.value, networkId))

\* variant of signUserCommand: a key that does not decode yields an empty signature
signUserCommand_swallow(command, privateKeyBase58, networkId) ==
  IF PrivateKey_fromBase58(privateKeyBase58).thrown
  THEN Ok([field |-> <<"text", "">>])
  ELSE SignInput(toInputLegacy(command), PrivateKey_fromBase58(privateKeyBase58),
                 networkId)

signUserCommand(command, privateKeyBase58, networkId) ==
  SignInput(toInputLegacy(command), PrivateKey_fromBase58(privateKeyBase58), networkId)

\* an error thrown while the command is built propagates
SignCommand(command, privateKeyBase58, networkId) ==
  IF command.thrown THEN command
  ELSE signUserCommand(command.value, privateKeyBase58, networkId)

signPayment(payment, privateKeyBase58, networkId) ==
  SignCommand(paymentFromJson(payment), privateKeyBase58, networkId)

signStakeDelegation(delegation, privateKeyBase58, networkId) ==
  SignCommand(delegationFromJson(delegation), privateKeyBase58, networkId)

\* variants of verifyUserCommand: its own order of the hash input; the network
\* of the call not passed on
verifyUserCommand_bodyFirst(command, signatureJson, publicKeyBase58, networkId) ==
  VerifyInput(HashInputLegacy_append(bodyToInputLegacy(command.body),
                                     commonToInputLegacy(command.common)),
              Signature_fromJSON(signatureJson),
              PublicKey_fromBase58(publicKeyBase58), networkId)

verifyUserCommand_fixedNetwork(command, signatureJson, publicKeyBase58, networkId) ==
  VerifyInput(toInputLegacy(command), Signature_fromJSON(signatureJson),
              PublicKey_fromBase58(publicKeyBase58), "mainnet")

verifyUserCommand(command, signatureJson, publicKeyBase58, networkId) ==
  VerifyInput(toInputLegacy(command), Signature_fromJSON(signatureJson),
              PublicKey_fromBase58(publicKeyBase58), networkId)

VerifyCommand(command, signatureJson, publicKeyBase58, networkId) ==
  IF command.thrown THEN command
  ELSE verifyUserCommand(command.value, signatureJson, publicKeyBase58, networkId)

\* try { return ... } catch { return false }
Catch(result) == IF result.thrown THEN Ok(FALSE) ELSE result

\* variant of verifyPayment: no catch
verifyPayment_noCatch(payment, signatureJson, publicKeyBase58, networkId) ==
  VerifyCommand(paymentFromJson(payment), signatureJson, publicKeyBase58, networkId)

verifyPayment(payment, signatureJson, publicKeyBase58, networkId) ==
  Catch(VerifyCommand(paymentFromJson(payment), signatureJson,
                      publicKeyBase58, networkId))

verifyStakeDelegation(delegation, signatureJson, publicKeyBase58, networkId) ==
  Catch(VerifyCommand(delegationFromJson(delegation), signatureJson,
                      publicKeyBase58, networkId))

signString(string, privateKeyBase58, networkId) ==
  SignInput(stringToInput(string), PrivateKey_fromBase58(privateKeyBase58), networkId)

verifyStringSignature(string, signatureJson, publicKeyBase58, networkId) ==
  Catch(VerifyInput(stringToInput(string), Signature_fromJSON(signatureJson),
                    PublicKey_fromBase58(publicKeyBase58), networkId))

-----------------------------------------------------------------------------
(* The inputs of the calls *)

NetworkIds == {"mainnet", "testnet"}

PrivateKeyStrings == {"EKEA", "EKEB", "EKbad"}

PublicKeyStrings == {"B62qA", "B62qB", "B62qbad"}

Num1000000 == <<"1", "0", "0", "0", "0", "0", "0">>
Num5000000000 == <<"5", "0", "0", "0", "0", "0", "0", "0", "0", "0">>
Num05000000000 == <<"0">> \o Num5000000000
MaxUInt32 == <<"4", "2", "9", "4", "9", "6", "7", "2", "9", "5">>
OverUInt32 == <<"4", "2", "9", "4", "9", "6", "7", "2", "9", "6">>
MaxUInt64 == <<"1", "8", "4", "4", "6", "7", "4", "4", "0", "7",
               "3", "7", "0", "9", "5", "5", "1", "6", "1", "5">>
OverUInt64 == <<"1", "8", "4", "4", "6", "7", "4", "4", "0", "7",
                "3", "7", "0", "9", "5", "5", "1", "6", "1", "6">>

\* a memo one byte longer than the encoding holds
LongMemo == [i \in 1..(MemoCapacity + 1) |-> 97]

BaseCommon ==
  [fee |-> Num1000000, feePayer |-> "B62qA", nonce |-> <<"0">>,
   validUntil |-> MaxUInt32, memo |-> <<104>>]

BasePayment ==
  [common |-> BaseCommon,
   body |-> [source |-> "B62qA", receiver |-> "B62qB", amount |-> Num5000000000]]

PaymentJsons ==
  {BasePayment, [common |-> BaseCommon]}
  \cup {[BasePayment EXCEPT !.common.fee = v] : v \in {<<"2">>, OverUInt64}}
  \cup {[BasePayment EXCEPT !.common.nonce = v] : v \in {<<"1">>, OverUInt32}}
  \cup {[BasePayment EXCEPT !.common.validUntil = v] : v \in {<<"0">>}}
  \cup {[BasePayment EXCEPT !.common.memo = v] : v \in {<<>>, LongMemo}}
  \cup {[BasePayment EXCEPT !.common.feePayer = v] : v \in {"B62qB", "B62qbad"}}
  \cup {[BasePayment EXCEPT !.body.source = v] : v \in {"B62qC"}}
  \cup {[BasePayment EXCEPT !.body.receiver = v] : v \in {"B62qA"}}
  \cup {[BasePayment EXCEPT !.body.amount = v] :
          v \in {MaxUInt64, Num05000000000, <<"-", "1">>, <<"1", "e", "3">>}}

BaseDelegation ==
  [common |-> BaseCommon, body |-> [delegator |-> "B62qA", newDelegate |-> "B62qB"]]

DelegationJsons ==
  {BaseDelegation,
   [BaseDelegation EXCEPT !.body = [delegator |-> "B62qA", newDelegate |-> "B62qB",
                                    amount |-> Num5000000000]],
   [BaseDelegation EXCEPT !.body.newDelegate = "B62qC"],
   [BaseDelegation EXCEPT !.body.delegator = "B62qbad"]}

Strings == {<<104>>, <<104, 105>>, <<104, 0>>, <<233>>}

\* a signature of another message under another key, and malformed signatures
ForeignSignature == Signature_toJSON(signLegacy(stringToInput(<<33>>), 2, "mainnet"))

OtherSignatures ==
  {ForeignSignature,
   [field |-> <<"text", "0x">>, scalar |-> <<"decimal", [literal |-> 9]>>],
   [field |-> <<"decimal", [literal |-> 7]>>]}

\* the signatures a verification is called with: the one just made, or another
Signatures ==
  OtherSignatures
  \cup IF signing.op # "none" /\ ~signing.outcome.thrown
       THEN {signing.outcome.value} ELSE {}

-----------------------------------------------------------------------------
(* The fetch layer: its values *)

undefined == [undefined |-> TRUE]
null == [null |-> TRUE]

\* a JavaScript object used as a dictionary: {}, object[key] = value,
\* delete object[key]
EmptyObject == [key \in {} |-> undefined]

Put(object, key, value) ==
  [k \in DOMAIN object \cup {key} |-> IF k = key THEN value ELSE object[k]]

Delete(object, key) == [k \in DOMAIN object \ {key} |-> object[k]]

\* an optional argument, or a parameter with a default value
Argument(args, name, default) == IF name \in DOMAIN args THEN args[name] ELSE default

PublicKey_toBase58(publicKey) ==
  CHOOSE base58 \in DOMAIN PublicKeyBook : PublicKeyBook[base58] = publicKey

\* token ids and their base58 strings; the default token is the field element 1
TokenBook == [wSHV |-> 1, xLpo |-> 2]

TokenId_default == 1

TokenId_toBase58(tokenId) == CHOOSE base58 \in DOMAIN TokenBook : TokenBook[base58] = tokenId

\* of an account as the endpoint sends it, the account; of a partial account,
\* the account with the default values of what it leaves out
parseFetchedAccount(fetchedAccount) ==
  [publicKey |-> PublicKeyBook[fetchedAccount.publicKey],
   tokenId |-> TokenBook[fetchedAccount.token],
   nonce |-> fetchedAccount.nonce]

fillPartialAccount(partialAccount) ==
  [publicKey |-> partialAccount.publicKey,
   tokenId |-> Argument(partialAccount, "tokenId", TokenId_default),
   nonce |-> Argument(partialAccount, "nonce", 0)]

\* of a block as the endpoint sends it, the network: its length is the height
\* of the block (its other values are left out); a block without its protocol
\* state cannot be destructured
parseFetchedBlock(lastBlock) ==
  IF "blockHeight" \notin DOMAIN lastBlock THEN Throw("TypeError")
  ELSE Ok([blockchainLength |-> lastBlock.blockHeight])

\* variant of accountCacheKey: the endpoint is not part of the key
accountCacheKey_noEndpoint(publicKey, tokenId, graphqlEndpoint) ==
  PublicKey_toBase58(publicKey) \o ";" \o TokenId_toBase58(tokenId)

accountCacheKey(publicKey, tokenId, graphqlEndpoint) ==
  PublicKey_toBase58(publicKey) \o ";" \o TokenId_toBase58(tokenId) \o ";" \o graphqlEndpoint

\* the cache that addCachedAccountInternal makes of a cache (the timestamp of
\* an entry, which no function of the module reads, is left out)
addCachedAccountInternal(cache, account, graphqlEndpoint) ==
  Put(cache, accountCacheKey(account.publicKey, account.tokenId, graphqlEndpoint),
      [account |-> account, graphqlEndpoint |-> graphqlEndpoint])

\* getCachedAccount and getCachedNetwork, called with an endpoint
getCachedAccount(publicKey, tokenId, graphqlEndpoint) ==
  IF accountCacheKey(publicKey, tokenId, graphqlEndpoint) \in DOMAIN accountCache
  THEN accountCache[accountCacheKey(publicKey, tokenId, graphqlEndpoint)].account
  ELSE undefined

getCachedNetwork(graphqlEndpoint) ==
  IF graphqlEndpoint \in DOMAIN networkCache
  THEN networkCache[graphqlEndpoint].network
  ELSE undefined

\* makeGraphqlRequest throws before it sends anything when no endpoint is set;
\* otherwise it gives [response, error]: the JSON of the response, or the
\* error of a response that is not ok or of a request that failed
makeGraphqlRequest_throws(graphqlEndpoint) == graphqlEndpoint = "none"

FetchErrors == {[statusCode |-> 500, statusText |-> "Unknown Error"]}

Nonces == {0, 1}

\* the answers to the query of an account: an error, no such account, the
\* account, or a response without data
AccountAnswers(publicKey, tokenId) ==
  {[response |-> undefined, error |-> error] : error \in FetchErrors}
  \cup {[response |-> [data |-> [account |-> null]], error |-> undefined]}
  \cup {[response |-> [data |-> [account |-> [publicKey |-> publicKey,
                                              token |-> tokenId,
                                              nonce |-> nonce]]],
         error |-> undefined] : nonce \in Nonces}
  \cup {[response |-> [errors |-> <<"query failed">>], error |-> undefined]}

\* the answers to the query of the last block
LastBlockAnswers ==
  {[response |-> undefined, error |-> error] : error \in FetchErrors}
  \cup {[response |-> [data |-> [bestChain |-> <<>>]], error |-> undefined],
        [response |-> [data |-> [bestChain |-> <<[stateHash |-> "3NK"]>>]],
         error |-> undefined],
        [response |-> [data |-> [bestChain |-> <<[blockHeight |-> 7]>>]],
         error |-> undefined]}

\* what fetchAccountInternal returns or throws, once the request is answered
NoSuchAccount(publicKey) ==
  [statusCode |-> 404,
   statusText |-> "fetchAccount: Account with public key " \o publicKey
                    \o " does not exist."]

\* variant of fetchAccountInternal: an error of the endpoint is thrown
fetchAccountInternal_throws(accountInfo, answer) ==
  IF answer.error # undefined THEN Throw(answer.error)
  ELSE IF "data" \notin DOMAIN answer.response THEN Throw("TypeError")
  ELSE IF answer.response.data.account = null
  THEN Ok([account |-> undefined, error |-> NoSuchAccount(accountInfo.publicKey)])
  ELSE Ok([account |-> parseFetchedAccount(answer.response.data.account),
           error |-> undefined])

fetchAccountInternal(accountInfo, answer) ==
  IF answer.error # undefined THEN Ok([account |-> undefined, error |-> answer.error])
  ELSE IF "data" \notin DOMAIN answer.response THEN Throw("TypeError")
  ELSE IF answer.response.data.account = null
  THEN Ok([account |-> undefined, error |-> NoSuchAccount(accountInfo.publicKey)])
  ELSE Ok([account |-> parseFetchedAccount(answer.response.data.account),
           error |-> undefined])

\* the token id of the query: tokenId ?? TokenId.toBase58(TokenId.default)
QueriedToken(accountInfo) ==
  Argument(accountInfo, "tokenId", TokenId_toBase58(TokenId_default))

\* the call returned an account
Fetched(response) == ~response.thrown /\ response.value.error = undefined

\* variant of CacheAfterFetch: the account is added under the default endpoint
CacheAfterFetch_defaultEndpoint(cache, response, graphqlEndpoint) ==
  IF Fetched(response)
  THEN addCachedAccountInternal(cache, response.value.account, defaultGraphqlEndpoint)
  ELSE cache

\* the account cache after fetchAccountInternal: the account is added to it
\* before the call returns it
CacheAfterFetch(cache, response, graphqlEndpoint) ==
  IF Fetched(response)
  THEN addCachedAccountInternal(cache, response.value.account, graphqlEndpoint)
  ELSE cache

\* what fetchLastBlock returns or throws, once the request is answered
fetchLastBlock(answer) ==
  IF answer.error # undefined THEN Throw(answer.error.statusText)
  ELSE IF \/ "data" \notin DOMAIN answer.response
          \/ answer.response.data.bestChain = <<>>
  THEN Throw("Failed to fetch latest network state.")
  ELSE parseFetchedBlock(answer.response.data.bestChain[1])

\* a call of fetchMissingData holds the requests that it awaits (accounts,
\* network), the response of the last account request answered, what the
\* call of fetchLastBlock gave, and whether one of its promises threw; once
\* it awaits nothing more it returns, and what a promise threw is thrown
Settled(call) ==
  [call EXCEPT
     !.pc = IF DOMAIN call.accounts = {} /\ call.network = {}
            THEN "returned" ELSE "awaiting",
     !.outcome = IF call.rejected THEN Throw("Error")
                 ELSE IF DOMAIN call.accounts = {} /\ call.network = {}
                 THEN Ok(undefined) ELSE undefined]

\* UInt32.from of a number: the number, once checked to be in the range of
\* 32 bits (the heights and slots sent here stay far below its upper end)
UInt32_from(x) == IF x < 0 THEN Throw("Error") ELSE Ok(x)

\* the answers to the query of the events of an account: each entry of
\* events holds the block and the transaction of the events and their data
FetchedEvents ==
  {[blockInfo |-> [distanceFromMaxBlockHeight |-> 0, height |-> 3,
                   globalSlotSinceGenesis |-> 5, stateHash |-> "3NKa",
                   parentHash |-> "3NKc", chainStatus |-> "pending"],
    transactionInfo |-> [hash |-> "CkpA", memo |-> "", status |-> "applied"],
    eventData |-> <<[data |-> <<"1">>]>>],
   [blockInfo |-> [distanceFromMaxBlockHeight |-> 0, height |-> 3,
                   globalSlotSinceGenesis |-> 6, stateHash |-> "3NKb",
                   parentHash |-> "3NKc", chainStatus |-> "pending"],
    transactionInfo |-> [hash |-> "CkpA", memo |-> "", status |-> "applied"],
    eventData |-> <<[data |-> <<"1">>]>>],
   [blockInfo |-> [distanceFromMaxBlockHeight |-> 1, height |-> 2,
                   globalSlotSinceGenesis |-> 3, stateHash |-> "3NKc",
                   parentHash |-> "3NKd", chainStatus |-> "pending"],
    transactionInfo |-> [hash |-> "CkpC", memo |-> "", status |-> "applied"],
    eventData |-> <<[data |-> <<"2">>], [data |-> <<"3", "4">>]>>],
   [blockInfo |-> [distanceFromMaxBlockHeight |-> 2, height |-> 1,
                   globalSlotSinceGenesis |-> 1, stateHash |-> "3NKd",
                   parentHash |-> "3NKe", chainStatus |-> "canonical"],
    transactionInfo |-> [hash |-> "CkpD", memo |-> "", status |-> "applied"],
    eventData |-> <<>>],
   [blockInfo |-> [distanceFromMaxBlockHeight |-> 1, height |-> -1,
                   globalSlotSinceGenesis |-> 3, stateHash |-> "3NKf",
                   parentHash |-> "3NKd", chainStatus |-> "orphaned"],
    transactionInfo |-> [hash |-> "CkpF", memo |-> "", status |-> "applied"],
    eventData |-> <<[data |-> <<"5">>]>>]}

EventsAnswers ==
  {[response |-> undefined, error |-> error] : error \in FetchErrors}
  \cup {[response |-> [errors |-> <<"query failed">>], error |-> undefined],
        [response |-> [data |-> [actions |-> <<>>]], error |-> undefined]}
  \cup {[response |-> [data |-> [events |-> events]], error |-> undefined] :
          events \in UNION {[1..n -> FetchedEvents] : n \in 0..MaxEvents}}

\* variant of WithoutBestTipBlocks: of several blocks at the best tip, the
\* first one is kept
RECURSIVE BestTipLoop_keepFirst(_, _, _)
BestTipLoop_keepFirst(fetchedEvents, i, numberOfBestTipBlocks) ==
  IF i > Len(fetchedEvents) THEN <<>>
  ELSE IF fetchedEvents[i].blockInfo.distanceFromMaxBlockHeight # 0
  THEN <<fetchedEvents[i]>>
         \o BestTipLoop_keepFirst(fetchedEvents, i + 1, numberOfBestTipBlocks)
  ELSE IF numberOfBestTipBlocks = 0
  THEN <<fetchedEvents[i]>> \o BestTipLoop_keepFirst(fetchedEvents, i + 1, 1)
  ELSE BestTipLoop_keepFirst(fetchedEvents, i + 1, numberOfBestTipBlocks)

WithoutBestTipBlocks_keepFirst(fetchedEvents) ==
  BestTipLoop_keepFirst(fetchedEvents, 1, 0)

\* the loop of fetchEvents over the fetched events, from the i-th one on: the
\* blocks at the best tip are counted, and as soon as there are two of them
\* the events of every block at the best tip are filtered out and the loop
\* is left
RECURSIVE BestTipLoop(_, _, _)
BestTipLoop(fetchedEvents, i, numberOfBestTipBlocks) ==
  IF i > Len(fetchedEvents) THEN fetchedEvents
  ELSE IF (IF fetchedEvents[i].blockInfo.distanceFromMaxBlockHeight = 0
           THEN numberOfBestTipBlocks + 1 ELSE numberOfBestTipBlocks) > 1
  THEN SelectSeq(fetchedEvents,
                 LAMBDA event : event.blockInfo.distanceFromMaxBlockHeight # 0)
  ELSE BestTipLoop(fetchedEvents, i + 1,
                   IF fetchedEvents[i].blockInfo.distanceFromMaxBlockHeight = 0
                   THEN numberOfBestTipBlocks + 1 ELSE numberOfBestTipBlocks)

WithoutBestTipBlocks(fetchedEvents) == BestTipLoop(fetchedEvents, 1, 0)

\* what fetchEvents returns of a fetched event
ReturnedEvent(event) ==
  [events |-> [k \in DOMAIN event.eventData |-> event.eventData[k].data],
   blockHeight |-> UInt32_from(event.blockInfo.height).value,
   blockHash |-> event.blockInfo.stateHash,
   parentBlockHash |-> event.blockInfo.parentHash,
   globalSlot |-> UInt32_from(event.blockInfo.globalSlotSinceGenesis).value,
   chainStatus |-> event.blockInfo.chainStatus,
   transactionHash |-> event.transactionInfo.hash,
   transactionStatus |-> event.transactionInfo.status,
   transactionMemo |-> event.transactionInfo.memo]

\* the map of the fetched events that are left: it throws what UInt32.from
\* throws
ReturnedEvents(fetchedEvents) ==
  IF \E i \in DOMAIN fetchedEvents :
       \/ UInt32_from(fetchedEvents[i].blockInfo.height).thrown
       \/ UInt32_from(fetchedEvents[i].blockInfo.globalSlotSinceGenesis).thrown
  THEN Throw("Error")
  ELSE Ok([i \in DOMAIN fetchedEvents |-> ReturnedEvent(fetchedEvents[i])])

\* what fetchEvents returns or throws, once the request is answered
fetchEvents(answer) ==
  IF answer.error # undefined THEN Throw(answer.error.statusText)
  ELSE IF "data" \notin DOMAIN answer.response THEN Throw("TypeError")
  ELSE IF "events" \notin DOMAIN answer.response.data
  THEN Throw("Failed to fetch events data.")
  ELSE ReturnedEvents(WithoutBestTipBlocks(answer.response.data.events))

-----------------------------------------------------------------------------
(* The calls *)

Init ==
  /\ signing = None
  /\ verifying = None
  /\ defaultGraphqlEndpoint = "none"
  /\ archiveGraphqlEndpoint = "none"
  /\ accountCache = EmptyObject
  /\ networkCache = EmptyObject
  /\ accountsToFetch = EmptyObject
  /\ networksToFetch = EmptyObject
  /\ fetching = None
  /\ missing = None
  /\ calls = 0

\* a call of a signing operation opens a session
Idle == signing.op = "none" /\ verifying.op = "none"

\* a verification is given a signature: it follows a signing that returned one,
\* or no signing at all
CanVerify ==
  /\ verifying.op = "none"
  /\ signing.op # "none" => ~signing.outcome.thrown

SignPayment ==
  \E payment \in PaymentJsons, sk \in PrivateKeyStrings, net \in NetworkIds :
    /\ Idle
    /\ signing' = [op |-> "signPayment", message |-> payment, privateKey |-> sk,
                   networkId |-> net, outcome |-> signPayment(payment, sk, net)]
    /\ UNCHANGED <<verifying, fetchLayer>>

SignStakeDelegation ==
  \E delegation \in DelegationJsons, sk \in PrivateKeyStrings, net \in NetworkIds :
    /\ Idle
    /\ signing' = [op |-> "signStakeDelegation", message |-> delegation,
                   privateKey |-> sk, networkId |-> net,
                   outcome |-> signStakeDelegation(delegation, sk, net)]
    /\ UNCHANGED <<verifying, fetchLayer>>

SignString ==
  \E string \in Strings, sk \in PrivateKeyStrings, net \in NetworkIds :
    /\ Idle
    /\ signing' = [op |-> "signString", message |-> string, privateKey |-> sk,
                   networkId |-> net, outcome |-> signString(string, sk, net)]
    /\ UNCHANGED <<verifying, fetchLayer>>

VerifyPayment ==
  \E payment \in PaymentJsons, sig \in Signatures,
     pk \in PublicKeyStrings, net \in NetworkIds :
    /\ CanVerify
    /\ verifying' = [op |-> "verifyPayment", message |-> payment, signature |-> sig,
                     publicKey |-> pk, networkId |-> net,
                     outcome |-> verifyPayment(payment, sig, pk, net)]
    /\ UNCHANGED <<signing, fetchLayer>>

VerifyStakeDelegation ==
  \E delegation \in DelegationJsons, sig \in Signatures,
     pk \in PublicKeyStrings, net \in NetworkIds :
    /\ CanVerify
    /\ verifying' = [op |-> "verifyStakeDelegation", message |-> delegation,
                     signature |-> sig, publicKey |-> pk, networkId |-> net,
                     outcome |-> verifyStakeDelegation(delegation, sig, pk, net)]
    /\ UNCHANGED <<signing, fetchLayer>>

VerifyStringSignature ==
  \E string \in Strings, sig \in Signatures,
     pk \in PublicKeyStrings, net \in NetworkIds :
    /\ CanVerify
    /\ verifying' = [op |-> "verifyStringSignature", message |-> string,
                     signature |-> sig, publicKey |-> pk, networkId |-> net,
                     outcome |-> verifyStringSignature(string, sig, pk, net)]
    /\ UNCHANGED <<signing, fetchLayer>>

\* the session ends: nothing of it is kept
Return ==
  /\ ~Idle
  /\ signing' = None
  /\ verifying' = None
  /\ UNCHANGED fetchLayer

Next ==
  \/ SignPayment
  \/ SignStakeDelegation
  \/ SignString
  \/ VerifyPayment
  \/ VerifyStakeDelegation
  \/ VerifyStringSignature
  \/ Return

Spec == Init /\ [][Next]_vars

-----------------------------------------------------------------------------
(* The fetch layer: the inputs of its calls *)

Endpoints == {"none", "e1", "e2"}

\* the accounts that are asked for: a public key and a token id
AccountIds ==
  {[publicKey |-> PublicKeyBook.B62qA, tokenId |-> TokenId_default],
   [publicKey |-> PublicKeyBook.B62qB, tokenId |-> 2]}

\* accountInfo holds the public key as a string or as a key, the token id as a
\* string, as a field element or not at all; the endpoint is optional
FetchAccountArgs ==
  {[accountInfo |-> [publicKey |-> [base58 |-> "B62qA"]]],
   [accountInfo |-> [publicKey |-> [base58 |-> "B62qA"], tokenId |-> [base58 |-> "wSHV"]],
    graphqlEndpoint |-> "e1"],
   [accountInfo |-> [publicKey |-> [point |-> PublicKeyBook.B62qB],
                     tokenId |-> [field |-> 2]],
    graphqlEndpoint |-> "e2"]}

AddCachedAccountArgs ==
  {[partialAccount |-> [publicKey |-> PublicKeyBook.B62qA]],
   [partialAccount |-> [publicKey |-> PublicKeyBook.B62qA, nonce |-> 1],
    graphqlEndpoint |-> "e1"],
   [partialAccount |-> [publicKey |-> PublicKeyBook.B62qB, tokenId |-> 2, nonce |-> 1],
    graphqlEndpoint |-> "e2"]}

-----------------------------------------------------------------------------
(* The fetch layer: its calls *)

\* a new call of an asynchronous function is made once the last one is over
NotFetching == IF fetching.op = "none" THEN TRUE ELSE fetching.pc = "returned"
NotFetchingMissing == IF missing.op = "none" THEN TRUE ELSE missing.pc = "returned"

SetGraphqlEndpoint ==
  \E graphqlEndpoint \in Endpoints :
    /\ calls < MaxCalls
    /\ defaultGraphqlEndpoint' = graphqlEndpoint
    /\ calls' = calls + 1
    /\ UNCHANGED <<signing, verifying, archiveGraphqlEndpoint, accountCache,
                   networkCache, accountsToFetch, networksToFetch, fetching, missing>>

SetArchiveGraphqlEndpoint ==
  \E graphqlEndpoint \in Endpoints :
    /\ calls < MaxCalls
    /\ archiveGraphqlEndpoint' = graphqlEndpoint
    /\ calls' = calls + 1
    /\ UNCHANGED <<signing, verifying, defaultGraphqlEndpoint, accountCache,
                   networkCache, accountsToFetch, networksToFetch, fetching, missing>>

\* the synchronous start of fetchAccount: the request is sent, unless
\* makeGraphqlRequest throws
FetchAccount ==
  \E args \in FetchAccountArgs :
    /\ calls < MaxCalls
    /\ NotFetching
    /\ fetching' =
         [op |-> "fetchAccount",
          accountInfo |->
            [publicKey |->
               IF "point" \in DOMAIN args.accountInfo.publicKey
               THEN PublicKey_toBase58(args.accountInfo.publicKey.point)
               ELSE args.accountInfo.publicKey.base58]
            @@ IF "tokenId" \notin DOMAIN args.accountInfo THEN EmptyObject
               ELSE [tokenId |->
                       IF "field" \in DOMAIN args.accountInfo.tokenId
                       THEN TokenId_toBase58(args.accountInfo.tokenId.field)
                       ELSE args.accountInfo.tokenId.base58],
          graphqlEndpoint |-> Argument(args, "graphqlEndpoint", defaultGraphqlEndpoint),
          pc |-> IF makeGraphqlRequest_throws(
                      Argument(args, "graphqlEndpoint", defaultGraphqlEndpoint))
                 THEN "returned" ELSE "awaiting",
          outcome |-> IF makeGraphqlRequest_throws(
                           Argument(args, "graphqlEndpoint", defaultGraphqlEndpoint))
                      THEN Throw("Error") ELSE undefined,
          answer |-> undefined]
    /\ calls' = calls + 1
    /\ UNCHANGED <<signing, verifying, shared, missing>>

\* the request of fetchAccount is answered: the call returns
FetchAccountAnswered ==
  /\ fetching.op = "fetchAccount"
  /\ fetching.pc = "awaiting"
  /\ \E answer \in AccountAnswers(fetching.accountInfo.publicKey,
                                  QueriedToken(fetching.accountInfo)) :
       /\ fetching' = [fetching EXCEPT
                         !.pc = "returned",
                         !.outcome = fetchAccountInternal(fetching.accountInfo, answer),
                         !.answer = answer]
       /\ accountCache' =
            CacheAfterFetch(accountCache,
                            fetchAccountInternal(fetching.accountInfo, answer),
                            fetching.graphqlEndpoint)
  /\ UNCHANGED <<signing, verifying, defaultGraphqlEndpoint, archiveGraphqlEndpoint,
                 networkCache, accountsToFetch, networksToFetch, missing, calls>>

MarkAccountToBeFetched ==
  \E id \in AccountIds, graphqlEndpoint \in Endpoints :
    /\ calls < MaxCalls
    /\ accountsToFetch' =
         Put(accountsToFetch,
             PublicKey_toBase58(id.publicKey) \o ";" \o TokenId_toBase58(id.tokenId)
               \o ";" \o graphqlEndpoint,
             [publicKey |-> PublicKey_toBase58(id.publicKey),
              tokenId |-> TokenId_toBase58(id.tokenId),
              graphqlEndpoint |-> graphqlEndpoint])
    /\ calls' = calls + 1
    /\ UNCHANGED <<signing, verifying, defaultGraphqlEndpoint, archiveGraphqlEndpoint,
                   accountCache, networkCache, networksToFetch, fetching, missing>>

MarkNetworkToBeFetched ==
  \E graphqlEndpoint \in Endpoints :
    /\ calls < MaxCalls
    /\ networksToFetch' =
         Put(networksToFetch, graphqlEndpoint, [graphqlEndpoint |-> graphqlEndpoint])
    /\ calls' = calls + 1
    /\ UNCHANGED <<signing, verifying, defaultGraphqlEndpoint, archiveGraphqlEndpoint,
                   accountCache, networkCache, accountsToFetch, fetching, missing>>

\* the synchronous start of fetchMissingData: a request is sent for each marked
\* account, and one for the network if the endpoint is marked; with no
\* endpoint set, every request throws before it is sent
FetchMissingData ==
  \E graphqlEndpoint \in Endpoints :
    /\ calls < MaxCalls
    /\ NotFetchingMissing
    /\ missing' =
         IF makeGraphqlRequest_throws(graphqlEndpoint)
         THEN [op |-> "fetchMissingData", graphqlEndpoint |-> graphqlEndpoint,
               accounts |-> EmptyObject, network |-> {},
               rejected |-> DOMAIN accountsToFetch # {},
               response |-> undefined, lastBlock |-> undefined,
               pc |-> "returned",
               outcome |-> IF DOMAIN accountsToFetch # {}
                           THEN Throw("Error") ELSE Ok(undefined)]
         ELSE Settled([op |-> "fetchMissingData", graphqlEndpoint |-> graphqlEndpoint,
                       accounts |-> accountsToFetch,
                       network |-> {key \in DOMAIN networksToFetch :
                                      networksToFetch[key].graphqlEndpoint
                                        = graphqlEndpoint},
                       rejected |-> FALSE,
                       response |-> undefined, lastBlock |-> undefined,
                       pc |-> "awaiting", outcome |-> undefined])
    /\ calls' = calls + 1
    /\ UNCHANGED <<signing, verifying, shared, fetching>>

\* variant of MissingAccountAnswered: the mark is removed whatever the answer
MissingAccountAnswered_removes ==
  /\ missing.op = "fetchMissingData"
  /\ \E key \in DOMAIN missing.accounts :
       \E answer \in AccountAnswers(missing.accounts[key].publicKey,
                                    missing.accounts[key].tokenId) :
         /\ accountCache' =
              CacheAfterFetch(accountCache,
                              fetchAccountInternal(missing.accounts[key], answer),
                              missing.graphqlEndpoint)
         /\ accountsToFetch' = Delete(accountsToFetch, key)
         /\ missing' =
              Settled([missing EXCEPT
                         !.accounts = Delete(@, key),
                         !.response =
                           [key |-> key,
                            response |->
                              fetchAccountInternal(missing.accounts[key], answer)],
                         !.rejected =
                           @ \/ fetchAccountInternal(missing.accounts[key], answer).thrown])
  /\ UNCHANGED <<signing, verifying, defaultGraphqlEndpoint, archiveGraphqlEndpoint,
                 networkCache, networksToFetch, fetching, calls>>

\* the request for one marked account is answered: the account is fetched from
\* the endpoint of the call, and its mark removed if no error is returned
MissingAccountAnswered ==
  /\ missing.op = "fetchMissingData"
  /\ \E key \in DOMAIN missing.accounts :
       \E answer \in AccountAnswers(missing.accounts[key].publicKey,
                                    missing.accounts[key].tokenId) :
         /\ accountCache' =
              CacheAfterFetch(accountCache,
                              fetchAccountInternal(missing.accounts[key], answer),
                              missing.graphqlEndpoint)
         /\ accountsToFetch' =
              IF Fetched(fetchAccountInternal(missing.accounts[key], answer))
              THEN Delete(accountsToFetch, key)
              ELSE accountsToFetch
         /\ missing' =
              Settled([missing EXCEPT
                         !.accounts = Delete(@, key),
                         !.response =
                           [key |-> key,
                            response |->
                              fetchAccountInternal(missing.accounts[key], answer)],
                         !.rejected =
                           @ \/ fetchAccountInternal(missing.accounts[key], answer).thrown])
  /\ UNCHANGED <<signing, verifying, defaultGraphqlEndpoint, archiveGraphqlEndpoint,
                 networkCache, networksToFetch, fetching, calls>>

\* variant of MissingLastBlockAnswered: the mark is removed whatever the answer
MissingLastBlockAnswered_removes ==
  /\ missing.op = "fetchMissingData"
  /\ missing.network # {}
  /\ \E answer \in LastBlockAnswers :
       /\ networkCache' =
            IF fetchLastBlock(answer).thrown THEN networkCache
            ELSE Put(networkCache, missing.graphqlEndpoint,
                     [network |-> fetchLastBlock(answer).value,
                      graphqlEndpoint |-> missing.graphqlEndpoint])
       /\ networksToFetch' = Delete(networksToFetch, CHOOSE key \in missing.network : TRUE)
       /\ missing' = Settled([missing EXCEPT
                                 !.network = {},
                                 !.lastBlock = fetchLastBlock(answer)])
  /\ UNCHANGED <<signing, verifying, defaultGraphqlEndpoint, archiveGraphqlEndpoint,
                 accountCache, accountsToFetch, fetching, calls>>

\* the request for the last block is answered: the network is cached and its
\* mark removed, or what fetchLastBlock throws is caught
MissingLastBlockAnswered ==
  /\ missing.op = "fetchMissingData"
  /\ missing.network # {}
  /\ \E answer \in LastBlockAnswers :
       /\ networkCache' =
            IF fetchLastBlock(answer).thrown THEN networkCache
            ELSE Put(networkCache, missing.graphqlEndpoint,
                     [network |-> fetchLastBlock(answer).value,
                      graphqlEndpoint |-> missing.graphqlEndpoint])
       /\ networksToFetch' =
            IF fetchLastBlock(answer).thrown THEN networksToFetch
            ELSE Delete(networksToFetch, CHOOSE key \in missing.network : TRUE)
       /\ missing' = Settled([missing EXCEPT
                                 !.network = {},
                                 !.lastBlock = fetchLastBlock(answer)])
  /\ UNCHANGED <<signing, verifying, defaultGraphqlEndpoint, archiveGraphqlEndpoint,
                 accountCache, accountsToFetch, fetching, calls>>

AddCachedAccount ==
  \E args \in AddCachedAccountArgs :
    /\ calls < MaxCalls
    /\ accountCache' =
         addCachedAccountInternal(accountCache, fillPartialAccount(args.partialAccount),
                                  Argument(args, "graphqlEndpoint", defaultGraphqlEndpoint))
    /\ calls' = calls + 1
    /\ UNCHANGED <<signing, verifying, defaultGraphqlEndpoint, archiveGraphqlEndpoint,
                   networkCache, accountsToFetch, networksToFetch, fetching, missing>>

-----------------------------------------------------------------------------
(* The sign and verify calls, made while the fetch layer is in use *)

\* variant of SignStringMeanwhile: the signature is kept in the account cache
SignStringMeanwhile_cached ==
  \E string \in {<<104>>}, sk \in {"EKEA"}, net \in NetworkIds :
    /\ calls < MaxCalls
    /\ signing' = [op |-> "signString", message |-> string, privateKey |-> sk,
                   networkId |-> net, outcome |-> signString(string, sk, net)]
    /\ accountCache' = Put(accountCache, "signString", signString(string, sk, net))
    /\ calls' = calls + 1
    /\ UNCHANGED <<verifying, defaultGraphqlEndpoint, archiveGraphqlEndpoint,
                   networkCache, accountsToFetch, networksToFetch, fetching, missing>>

SignPaymentMeanwhile ==
  \E payment \in {BasePayment}, sk \in {"EKEA"}, net \in NetworkIds :
    /\ calls < MaxCalls
    /\ signing' = [op |-> "signPayment", message |-> payment, privateKey |-> sk,
                   networkId |-> net, outcome |-> signPayment(payment, sk, net)]
    /\ calls' = calls + 1
    /\ UNCHANGED <<verifying, shared, fetching, missing>>

SignStakeDelegationMeanwhile ==
  \E delegation \in {BaseDelegation}, sk \in {"EKEA"}, net \in NetworkIds :
    /\ calls < MaxCalls
    /\ signing' = [op |-> "signStakeDelegation", message |-> delegation,
                   privateKey |-> sk, networkId |-> net,
                   outcome |-> signStakeDelegation(delegation, sk, net)]
    /\ calls' = calls + 1
    /\ UNCHANGED <<verifying, shared, fetching, missing>>

SignStringMeanwhile ==
  \E string \in {<<104>>}, sk \in {"EKEA"}, net \in NetworkIds :
    /\ calls < MaxCalls
    /\ signing' = [op |-> "signString", message |-> string, privateKey |-> sk,
                   networkId |-> net, outcome |-> signString(string, sk, net)]
    /\ calls' = calls + 1
    /\ UNCHANGED <<verifying, shared, fetching, missing>>

\* the signatures that such a verification is called with
SignaturesMeanwhile ==
  {ForeignSignature}
  \cup IF signing.op # "none" /\ ~signing.outcome.thrown
       THEN {signing.outcome.value} ELSE {}

VerifyPaymentMeanwhile ==
  \E payment \in {BasePayment}, sig \in SignaturesMeanwhile,
     pk \in {"B62qA"}, net \in {"mainnet"} :
    /\ calls < MaxCalls
    /\ verifying' = [op |-> "verifyPayment", message |-> payment, signature |-> sig,
                     publicKey |-> pk, networkId |-> net,
                     outcome |-> verifyPayment(payment, sig, pk, net)]
    /\ calls' = calls + 1
    /\ UNCHANGED <<signing, shared, fetching, missing>>

VerifyStakeDelegationMeanwhile ==
  \E delegation \in {BaseDelegation}, sig \in SignaturesMeanwhile,
     pk \in {"B62qA"}, net \in {"mainnet"} :
    /\ calls < MaxCalls
    /\ verifying' = [op |-> "verifyStakeDelegation", message |-> delegation,
                     signature |-> sig, publicKey |-> pk, networkId |-> net,
                     outcome |-> verifyStakeDelegation(delegation, sig, pk, net)]
    /\ calls' = calls + 1
    /\ UNCHANGED <<signing, shared, fetching, missing>>

VerifyStringSignatureMeanwhile ==
  \E string \in {<<104>>}, sig \in SignaturesMeanwhile,
     pk \in {"B62qA"}, net \in {"mainnet"} :
    /\ calls < MaxCalls
    /\ verifying' = [op |-> "verifyStringSignature", message |-> string,
                     signature |-> sig, publicKey |-> pk, networkId |-> net,
                     outcome |-> verifyStringSignature(string, sig, pk, net)]
    /\ calls' = calls + 1
    /\ UNCHANGED <<signing, shared, fetching, missing>>

NextFetch ==
  \/ SetGraphqlEndpoint
  \/ SetArchiveGraphqlEndpoint
  \/ FetchAccount
  \/ FetchAccountAnswered
  \/ MarkAccountToBeFetched
  \/ MarkNetworkToBeFetched
  \/ FetchMissingData
  \/ MissingAccountAnswered
  \/ MissingLastBlockAnswered
  \/ AddCachedAccount
  \/ SignPaymentMeanwhile
  \/ SignStakeDelegationMeanwhile
  \/ SignStringMeanwhile
  \/ VerifyPaymentMeanwhile
  \/ VerifyStakeDelegationMeanwhile
  \/ VerifyStringSignatureMeanwhile

FetchSpec == Init /\ [][NextFetch]_vars

-----------------------------------------------------------------------------
(* The fetch layer: the events of an account *)

\* the endpoint is optional (the archive endpoint by default), and may be the
\* empty string
FetchEventsArgs ==
  {[accountInfo |-> [publicKey |-> "B62qA"]],
   [accountInfo |-> [publicKey |-> "B62qA", tokenId |-> "wSHV"],
    graphqlEndpoint |-> "e1"],
   [accountInfo |-> [publicKey |-> "B62qB", tokenId |-> "xLpo"],
    graphqlEndpoint |-> ""]}

\* the synchronous start of fetchEvents: the request is sent, unless the
\* endpoint is empty or makeGraphqlRequest throws
FetchEvents ==
  \E args \in FetchEventsArgs :
    /\ calls < MaxCalls
    /\ NotFetching
    /\ fetching' =
         [op |-> "fetchEvents",
          accountInfo |-> args.accountInfo,
          graphqlEndpoint |-> Argument(args, "graphqlEndpoint", archiveGraphqlEndpoint),
          pc |-> IF \/ Argument(args, "graphqlEndpoint", archiveGraphqlEndpoint) = ""
                    \/ makeGraphqlRequest_throws(
                         Argument(args, "graphqlEndpoint", archiveGraphqlEndpoint))
                 THEN "returned" ELSE "awaiting",
          outcome |-> IF \/ Argument(args, "graphqlEndpoint", archiveGraphqlEndpoint) = ""
                         \/ makeGraphqlRequest_throws(
                              Argument(args, "graphqlEndpoint", archiveGraphqlEndpoint))
                      THEN Throw("Error") ELSE undefined,
          answer |-> undefined]
    /\ calls' = calls + 1
    /\ UNCHANGED <<signing, verifying, shared, missing>>

\* the request of fetchEvents is answered: the call returns
FetchEventsAnswered ==
  /\ fetching.op = "fetchEvents"
  /\ fetching.pc = "awaiting"
  /\ \E answer \in EventsAnswers :
       fetching' = [fetching EXCEPT
                      !.pc = "returned",
                      !.outcome = fetchEvents(answer),
                      !.answer = answer]
  /\ UNCHANGED <<signing, verifying, shared, missing, calls>>

NextEvents ==
  \/ SetArchiveGraphqlEndpoint
  \/ FetchEvents
  \/ FetchEventsAnswered

EventsSpec == Init /\ [][NextEvents]_vars


-----------------------------------------------------------------------------
(* What a state tells of its calls *)

IsCommandSign == signing.op \in {"signPayment", "signStakeDelegation"}

IsCommandVerify == verifying.op \in {"verifyPayment", "verifyStakeDelegation"}

\* the typed command the signing call, the verification call, translated its JSON into
SigningCommand ==
  IF signing.op = "signPayment" THEN paymentFromJson(signing.message)
  ELSE delegationFromJson(signing.message)

VerifyingCommand ==
  IF verifying.op = "verifyPayment" THEN paymentFromJson(verifying.message)
  ELSE delegationFromJson(verifying.message)

SigningReturned == signing.op # "none" /\ ~signing.outcome.thrown

\* the hash input that the returned signature signs
SignedInput == signing.outcome.value.scalar[2].e.message

SameKind ==
  \/ signing.op = "signPayment" /\ verifying.op = "verifyPayment"
  \/ signing.op = "signStakeDelegation" /\ verifying.op = "verifyStakeDelegation"
  \/ signing.op = "signString" /\ verifying.op = "verifyStringSignature"

\* the verification is given the signature that the signing call returned
VerifiesSignature ==
  /\ SigningReturned
  /\ verifying.op # "none"
  /\ verifying.signature = signing.outcome.value

\* ... for the message that was signed
VerifiesSigned ==
  /\ VerifiesSignature
  /\ SameKind
  /\ verifying.message = signing.message

\* the public key of the verification is the one derived from the signing key
KeyMatches ==
  /\ ~PublicKey_fromBase58(verifying.publicKey).thrown
  /\ PublicKey_fromBase58(verifying.publicKey).value
       = PrivateKey_toPublicKey(PrivateKey_fromBase58(signing.privateKey).value)

\* a step of decoding the arguments of the verification fails
DecodingFails ==
  \/ IsCommandVerify /\ VerifyingCommand.thrown
  \/ Signature_fromJSON(verifying.signature).thrown
  \/ PublicKey_fromBase58(verifying.publicKey).thrown

\* two commands differ in one of amount, nonce, fee, validUntil, source, receiver
Differ(c1, c2) ==
  \/ c1.body.amount # c2.body.amount
  \/ c1.common.nonce # c2.common.nonce
  \/ c1.common.fee # c2.common.fee
  \/ c1.common.validUntil # c2.common.validUntil
  \/ c1.body.source # c2.body.source
  \/ c1.body.receiver # c2.body.receiver

\* the bits the body, the common part, of a command is expected to encode to
ExpectedTagBits(tag) ==
  IF tag = "Payment" THEN <<FALSE, FALSE, FALSE>> ELSE <<FALSE, FALSE, TRUE>>

ExpectedTokenId == <<TRUE>> \o [i \in 1..63 |-> FALSE]

ExpectedBodyBits(body) ==
  ExpectedTagBits(body.tag) \o <<body.source.isOdd>> \o <<body.receiver.isOdd>>
  \o ExpectedTokenId \o UInt64_toBits(body.amount) \o <<FALSE>>

ExpectedCommonBits(common) ==
  UInt64_toBits(common.fee) \o ExpectedTokenId \o <<common.feePayer.isOdd>>
  \o UInt32_toBits(common.nonce) \o UInt32_toBits(common.validUntil)
  \o Memo_toBits(common.memo)

Last(s, n) == SubSeq(s, Len(s) - n + 1, Len(s))

-----------------------------------------------------------------------------
(* Properties *)

\* C1: a command signed with a valid key verifies, with the public key derived
\* from that key and the same network id: the verification returns true.
C1_SignThenVerify ==
  (IsCommandSign /\ VerifiesSigned /\ KeyMatches
     /\ verifying.networkId = signing.networkId)
  => verifying.outcome = Ok(TRUE)

C1_Witness ==
  /\ IsCommandSign /\ VerifiesSigned /\ KeyMatches
  /\ verifying.networkId = signing.networkId
  /\ verifying.op = "verifyStakeDelegation"
  /\ verifying.outcome = Ok(TRUE)

\* C2: a verification never throws: it returns a boolean, and false whenever
\* the command JSON, the signature JSON or the public key fails to decode.
C2_VerifyNeverThrows ==
  verifying.op # "none"
  => /\ ~verifying.outcome.thrown
     /\ verifying.outcome.value \in BOOLEAN
     /\ DecodingFails => verifying.outcome.value = FALSE

C2_Witness ==
  /\ verifying.op = "verifyPayment"
  /\ VerifyingCommand.thrown
  /\ Signature_fromJSON(verifying.signature).thrown
  /\ PublicKey_fromBase58(verifying.publicKey).thrown
  /\ verifying.outcome = Ok(FALSE)

\* C3: a signed command or string verified under another network id than the
\* one it was signed under is rejected: the verification returns false.
C3_OtherNetworkRejected ==
  (VerifiesSigned /\ verifying.networkId # signing.networkId)
  => verifying.outcome = Ok(FALSE)

C3_Witness ==
  /\ VerifiesSigned /\ KeyMatches
  /\ verifying.op = "verifyPayment"
  /\ signing.networkId = "mainnet"
  /\ verifying.networkId = "testnet"
  /\ verifying.outcome = Ok(FALSE)

\* the state right after a signing call of a command, whose JSON translated
AfterCommandSign == IsCommandSign /\ verifying.op = "none" /\ ~SigningCommand.thrown

\* C4 (as amended): the hash input of a command is the common encoding
\* followed by the body encoding: common first, then body.
C4_CommonThenBody ==
  (AfterCommandSign /\ SigningReturned)
  => LET common == commonToInputLegacy(SigningCommand.value.common)
         body == bodyToInputLegacy(SigningCommand.value.body)
     IN  /\ SignedInput.bits = common.bits \o body.bits
         /\ SignedInput.fields = common.fields \o body.fields

\* C4 (as stated): the hash input of a command is the body encoding followed
\* by the common encoding: body first, then common.
C4_BodyThenCommon ==
  (AfterCommandSign /\ SigningReturned)
  => LET common == commonToInputLegacy(SigningCommand.value.common)
         body == bodyToInputLegacy(SigningCommand.value.body)
     IN  /\ SignedInput.bits = body.bits \o common.bits
         /\ SignedInput.fields = body.fields \o common.fields

C4_Witness ==
  /\ signing.op = "signPayment"
  /\ AfterCommandSign /\ SigningReturned
  /\ Len(SignedInput.fields) = 3

\* C5: a signing call throws when the private key does not decode or the
\* command JSON does not translate, and what it returns is a whole signature.
C5_SignPropagates ==
  (signing.op # "none" /\ verifying.op = "none")
  => /\ PrivateKey_fromBase58(signing.privateKey).thrown => signing.outcome.thrown
     /\ (IsCommandSign /\ SigningCommand.thrown) => signing.outcome.thrown
     /\ ~signing.outcome.thrown
          => /\ DOMAIN signing.outcome.value = {"field", "scalar"}
             /\ ~Signature_fromJSON(signing.outcome.value).thrown

C5_Witness ==
  /\ signing.op = "signString"
  /\ verifying.op = "none"
  /\ PrivateKey_fromBase58(signing.privateKey).thrown
  /\ signing.outcome.thrown

\* C6: the body encodes as the 3 tag bits, the source, the receiver, the token
\* id (true, then 63 false), the 64 bits of the amount and one false bit, in
\* this order; it is the end of the hash input that is signed.
C6_BodyOrder ==
  AfterCommandSign
  => LET body == SigningCommand.value.body
         input == bodyToInputLegacy(body)
     IN  /\ input.bits = ExpectedBodyBits(body)
         /\ input.fields = <<body.source.x, body.receiver.x>>
         /\ Len(input.bits) = 134
         /\ SigningReturned
              => /\ Last(SignedInput.bits, 134) = ExpectedBodyBits(body)
                 /\ Last(SignedInput.fields, 2) = <<body.source.x, body.receiver.x>>

C6_Witness ==
  /\ signing.op = "signPayment"
  /\ AfterCommandSign /\ SigningReturned
  /\ SigningCommand.value.body.source # SigningCommand.value.body.receiver
  /\ SigningCommand.value.body.amount # UInt64(0)

\* C7: the common part encodes as the 64 bits of the fee, the token id, the
\* fee payer, the 32 bits of the nonce, the 32 bits of valid-until and the
\* memo bits, in this order; it is the start of the hash input that is signed.
C7_CommonOrder ==
  AfterCommandSign
  => LET common == SigningCommand.value.common
         input == commonToInputLegacy(common)
     IN  /\ input.bits = ExpectedCommonBits(common)
         /\ input.fields = <<common.feePayer.x>>
         /\ SigningReturned
              => /\ SubSeq(SignedInput.bits, 1, Len(SignedInput.bits) - 134)
                      = ExpectedCommonBits(common)
                 /\ Head(SignedInput.fields) = common.feePayer.x

C7_Witness ==
  /\ signing.op = "signStakeDelegation"
  /\ AfterCommandSign /\ SigningReturned
  /\ SigningCommand.value.common.nonce # SigningCommand.value.common.validUntil

\* a delegation JSON without, with, an amount field in its body
WithoutAmount(delegation) ==
  [delegation EXCEPT !.body = [delegator |-> delegation.body.delegator,
                               newDelegate |-> delegation.body.newDelegate]]

WithAmount(delegation, amount) ==
  [delegation EXCEPT !.body = [delegator |-> delegation.body.delegator,
                               newDelegate |-> delegation.body.newDelegate,
                               amount |-> amount]]

\* C8: the command of a delegation has amount zero whatever its JSON holds: the
\* same delegation with no amount field, or with one, has the same hash input
\* and, for the same key and network id, the same signature.
C8_DelegationAmountZero ==
  (signing.op = "signStakeDelegation" /\ AfterCommandSign)
  => /\ UInt64_toBits(SigningCommand.value.body.amount) = [i \in 1..64 |-> FALSE]
     /\ \A json \in {WithoutAmount(signing.message),
                     WithAmount(signing.message, <<"7">>),
                     WithAmount(signing.message, MaxUInt64)} :
          /\ delegationFromJson(json) = SigningCommand
          /\ toInputLegacy(delegationFromJson(json).value)
               = toInputLegacy(SigningCommand.value)
          /\ signStakeDelegation(json, signing.privateKey, signing.networkId)
               = signing.outcome
     /\ SigningReturned => SubSeq(SignedInput.bits, Len(SignedInput.bits) - 64,
                                  Len(SignedInput.bits) - 1) = [i \in 1..64 |-> FALSE]

C8_Witness ==
  /\ signing.op = "signStakeDelegation"
  /\ AfterCommandSign /\ SigningReturned
  /\ "amount" \in DOMAIN signing.message.body
  /\ signing.message.body.amount = Num5000000000

\* C9: a signed command verified as a command that differs in its amount,
\* nonce, fee, valid-until, source or receiver is rejected: the two commands
\* have different hash inputs and the verification returns false.
C9_ChangedFieldRejected ==
  (VerifiesSignature /\ IsCommandSign /\ IsCommandVerify /\ ~VerifyingCommand.thrown)
  => LET signed == SigningCommand.value
         changed == VerifyingCommand.value
     IN  Differ(signed, changed)
         => /\ toInputLegacy(signed) # toInputLegacy(changed)
            /\ verifying.outcome = Ok(FALSE)

C9_Witness ==
  /\ VerifiesSignature /\ IsCommandSign /\ IsCommandVerify /\ ~VerifyingCommand.thrown
  /\ SameKind /\ KeyMatches /\ verifying.networkId = signing.networkId
  /\ SigningCommand.value.body.amount # VerifyingCommand.value.body.amount
  /\ [SigningCommand.value EXCEPT !.body.amount = <<0, 0, 0, 0, 0>>]
       = [VerifyingCommand.value EXCEPT !.body.amount = <<0, 0, 0, 0, 0>>]
  /\ verifying.outcome = Ok(FALSE)

\* the commands that the calls of a state built
BuiltCommands ==
  (IF IsCommandSign /\ verifying.op = "none" /\ ~SigningCommand.thrown
   THEN {<<signing.op, SigningCommand.value>>} ELSE {})
  \cup (IF IsCommandVerify /\ ~VerifyingCommand.thrown
        THEN {<<verifying.op, VerifyingCommand.value>>} ELSE {})

AfterStringSign == signing.op = "signString" /\ verifying.op = "none"

\* bit k (0 the least significant) of a byte
BitOfByte(byte, k) == (byte \div (2 ^ k)) % 2 = 1

\* C11: the input of a string holds no field and 8 bits for each byte of its
\* UTF-8 encoding, the bytes in their order and the bits of a byte from bit 7
\* down to bit 0; it is the hash input that is signed.
C11_StringBits ==
  AfterStringSign
  => LET bytes == stringToBytes(signing.message)
         input == stringToInput(signing.message)
     IN  /\ input.fields = <<>>
         /\ DOMAIN input = {"fields", "bits"}
         /\ Len(input.bits) = 8 * Len(bytes)
         /\ \A j \in 1..Len(bytes) : \A k \in 0..7 :
              input.bits[8 * (j - 1) + (8 - k)] = BitOfByte(bytes[j], k)
         /\ SigningReturned => SignedInput = input

C11_Witness ==
  /\ AfterStringSign /\ SigningReturned
  /\ signing.message = <<104, 105>>
  /\ SignedInput.bits = <<FALSE, TRUE, TRUE, FALSE, TRUE, FALSE, FALSE, FALSE,
                          FALSE, TRUE, TRUE, FALSE, TRUE, FALSE, FALSE, TRUE>>

\* the verification is of the other kind than the signing: a command against
\* the signature of a string, or a string against the signature of a command
CrossKind ==
  \/ signing.op = "signString" /\ IsCommandVerify
  \/ IsCommandSign /\ verifying.op = "verifyStringSignature"

\* the hash input that the verification call builds
VerifiedInput ==
  IF verifying.op = "verifyStringSignature" THEN stringToInput(verifying.message)
  ELSE toInputLegacy(VerifyingCommand.value)

\* C12: the signature of a string never verifies as the signature of a command,
\* nor the signature of a command as the signature of a string: the hash input
\* of a string differs from the hash input of a command.
C12_NotInterchangeable ==
  (VerifiesSignature /\ CrossKind)
  => /\ verifying.outcome = Ok(FALSE)
     /\ (IsCommandVerify => ~VerifyingCommand.thrown)
          => /\ VerifiedInput # SignedInput
             /\ Len(VerifiedInput.fields) # Len(SignedInput.fields)

C12_Witness ==
  /\ VerifiesSignature /\ CrossKind /\ KeyMatches
  /\ signing.op = "signString"
  /\ verifying.op = "verifyPayment"
  /\ ~VerifyingCommand.thrown
  /\ verifying.networkId = signing.networkId
  /\ verifying.outcome = Ok(FALSE)

\* the signature of a string is verified for a string, with the public key of
\* the signing key and under the same network id
VerifiesStringSignature ==
  /\ VerifiesSignature /\ KeyMatches
  /\ signing.op = "signString"
  /\ verifying.op = "verifyStringSignature"
  /\ verifying.networkId = signing.networkId

\* C13: the signature of a string verifies for that string and for no other
\* string: two different strings have different hash inputs.
C13_OtherStringRejected ==
  VerifiesStringSignature
  => IF verifying.message = signing.message
     THEN verifying.outcome = Ok(TRUE)
     ELSE /\ verifying.outcome = Ok(FALSE)
          /\ stringToInput(verifying.message) # SignedInput

C13_Witness ==
  /\ VerifiesStringSignature
  /\ signing.message = <<104>>
  /\ verifying.message = <<104, 0>>
  /\ verifying.outcome = Ok(FALSE)

-----------------------------------------------------------------------------
(* Properties of the fetch layer *)

\* what a sign or verify call returns or throws, of its arguments alone
ResultOf(call) ==
  CASE call.op = "signPayment" ->
         signPayment(call.message, call.privateKey, call.networkId)
    [] call.op = "signStakeDelegation" ->
         signStakeDelegation(call.message, call.privateKey, call.networkId)
    [] call.op = "signString" ->
         signString(call.message, call.privateKey, call.networkId)
    [] call.op = "verifyPayment" ->
         verifyPayment(call.message, call.signature, call.publicKey, call.networkId)
    [] call.op = "verifyStakeDelegation" ->
         verifyStakeDelegation(call.message, call.signature, call.publicKey,
                               call.networkId)
    [] call.op = "verifyStringSignature" ->
         verifyStringSignature(call.message, call.signature, call.publicKey,
                               call.networkId)

\* C14: a sign or verify call, made at any point between the steps of the fetch
\* layer, leaves the configured endpoints, the account cache, the network cache
\* and the accounts and networks marked to be fetched as they are, and its
\* outcome is that of its arguments alone.
C14_SignVerifyFrame ==
  [][/\ signing' # signing
        => /\ UNCHANGED shared
           /\ signing'.outcome = ResultOf(signing')
     /\ verifying' # verifying
        => /\ UNCHANGED shared
           /\ verifying'.outcome = ResultOf(verifying')]_vars

C14_Witness ==
  /\ signing.op = "signString"
  /\ ~signing.outcome.thrown
  /\ missing.op = "fetchMissingData"
  /\ missing.pc = "awaiting"
  /\ DOMAIN accountsToFetch # {}

\* the call of fetchAccount has returned or thrown
FetchAccountReturned ==
  IF fetching.op = "fetchAccount" THEN fetching.pc = "returned" ELSE FALSE

CacheKeys == (DOMAIN PublicKeyBook) \X (DOMAIN TokenBook) \X Endpoints

Cached(key) == getCachedAccount(PublicKeyBook[key[1]], TokenBook[key[2]], key[3])

\* the accounts: a public key, a token id and what the account holds
Accounts ==
  [publicKey : {PublicKeyBook[base58] : base58 \in DOMAIN PublicKeyBook},
   tokenId : {TokenBook[base58] : base58 \in DOMAIN TokenBook},
   nonce : Nonces]

\* the key under which an account is cached for an endpoint
KeyOf(account, graphqlEndpoint) ==
  <<PublicKey_toBase58(account.publicKey), TokenId_toBase58(account.tokenId),
    graphqlEndpoint>>

\* the step caches the account under the endpoint, and leaves what is cached
\* under every other key as it is
CachesOnly(account, graphqlEndpoint) ==
  /\ Cached(KeyOf(account, graphqlEndpoint))' = account
  /\ \A key \in CacheKeys :
       key # KeyOf(account, graphqlEndpoint) => Cached(key)' = Cached(key)
  /\ DOMAIN accountCache'
       = DOMAIN accountCache
         \cup {accountCacheKey(account.publicKey, account.tokenId, graphqlEndpoint)}

\* the step is a call of addCachedAccount: the only call that changes the cache
AddsCachedAccount == calls' = calls + 1 /\ accountCache' # accountCache

\* C16: right after addCachedAccount(account, endpoint), getCachedAccount of
\* the public key, token id and endpoint gives the account, and what is cached
\* under every other key is unchanged: the same account under another endpoint.
C16_AddCachedAccount ==
  [][AddsCachedAccount
     => \E args \in AddCachedAccountArgs :
          CachesOnly(fillPartialAccount(args.partialAccount),
                     Argument(args, "graphqlEndpoint", defaultGraphqlEndpoint))]_vars

C16_Witness ==
  /\ Cached(<<"B62qA", "wSHV", "e1">>) # undefined
  /\ Cached(<<"B62qA", "wSHV", "e2">>) # undefined
  /\ Cached(<<"B62qA", "wSHV", "e1">>).nonce = 1
  /\ Cached(<<"B62qA", "wSHV", "e2">>).nonce = 0

\* C17: a call of fetchAccount changes the account cache only when it gets
\* the account, which is then cached under the endpoint of the request as the
\* call returns; when it returns an error (of the request, or 404) or throws,
\* the account cache is unchanged.
C17_CacheOnSuccess ==
  [][fetching' # fetching
     => IF fetching'.pc = "returned" /\ Fetched(fetching'.outcome)
        THEN \E account \in Accounts, graphqlEndpoint \in Endpoints :
               /\ account = fetching'.outcome.value.account
               /\ graphqlEndpoint = fetching'.graphqlEndpoint
               /\ CachesOnly(account, graphqlEndpoint)
        ELSE accountCache' = accountCache]_vars

C17_Witness ==
  /\ FetchAccountReturned
  /\ Fetched(fetching.outcome)
  /\ fetching.graphqlEndpoint = "e2"
  /\ Cached(<<"B62qB", "xLpo", "e2">>) = fetching.outcome.value.account
  /\ DOMAIN accountCache = {"B62qB;xLpo;e2"}

\* the step is the answer to a request for a marked account, to the request
\* for the last block, the start of a call of fetchMissingData
AccountAnswered ==
  /\ missing.op = "fetchMissingData"
  /\ missing'.op = "fetchMissingData"
  /\ DOMAIN missing'.accounts # DOMAIN missing.accounts
  /\ DOMAIN missing'.accounts \subseteq DOMAIN missing.accounts

LastBlockAnswered ==
  /\ missing.op = "fetchMissingData"
  /\ missing'.op = "fetchMissingData"
  /\ missing.network # {}
  /\ missing'.network = {}

StartsFetchMissingData == missing' # missing /\ calls' = calls + 1

\* C18: a mark of an account is removed only by fetchMissingData, when its
\* fetch of this account returned without error; when the fetch returned an
\* error or threw the mark stays, and a later call fetches every marked account.
C18_MarkRemovedOnSuccess ==
  [][/\ \A key \in DOMAIN accountsToFetch :
          key \notin DOMAIN accountsToFetch'
          => /\ AccountAnswered
             /\ missing'.response.key = key
             /\ Fetched(missing'.response.response)
     /\ AccountAnswered
          => (~Fetched(missing'.response.response)
                => accountsToFetch' = accountsToFetch)
     /\ (StartsFetchMissingData /\ ~makeGraphqlRequest_throws(missing'.graphqlEndpoint))
          => missing'.accounts = accountsToFetch]_vars

C18_Witness ==
  /\ missing.op = "fetchMissingData"
  /\ missing.response # undefined
  /\ ~missing.response.response.thrown
  /\ missing.response.response.value.error # undefined
  /\ missing.response.key \in DOMAIN accountsToFetch
  /\ missing.pc = "returned"

\* C19 (as stated): when fetchMissingData removes the mark of an account, the
\* account is in the account cache under the endpoint recorded in the mark.
C19_RemovedIsCached ==
  [][\A key \in DOMAIN accountsToFetch :
       key \notin DOMAIN accountsToFetch'
       => \E marked \in CacheKeys :
            /\ marked = <<accountsToFetch[key].publicKey, accountsToFetch[key].tokenId,
                          accountsToFetch[key].graphqlEndpoint>>
            /\ Cached(marked)' # undefined]_vars

\* C20: fetchMissingData(E) removes the mark of the network of E exactly when
\* its call of fetchLastBlock(E) returned, and the network of E is then cached;
\* when fetchLastBlock throws the mark stays and nothing is thrown to the
\* caller; no other mark of a network is removed.
C20_NetworkMark ==
  [][/\ \A key \in DOMAIN networksToFetch :
          key \notin DOMAIN networksToFetch'
          => /\ LastBlockAnswered
             /\ key = missing.graphqlEndpoint
             /\ ~missing'.lastBlock.thrown
     /\ LastBlockAnswered
          => /\ missing'.rejected = missing.rejected
             /\ IF missing'.lastBlock.thrown
                THEN networksToFetch' = networksToFetch /\ networkCache' = networkCache
                ELSE /\ missing.graphqlEndpoint \notin DOMAIN networksToFetch'
                     /\ getCachedNetwork(missing.graphqlEndpoint)'
                          = missing'.lastBlock.value
     /\ (StartsFetchMissingData /\ makeGraphqlRequest_throws(missing'.graphqlEndpoint))
          => /\ networksToFetch' = networksToFetch
             /\ missing'.outcome.thrown = (DOMAIN accountsToFetch # {})]_vars

C20_Witness ==
  /\ missing.op = "fetchMissingData"
  /\ missing.pc = "returned"
  /\ missing.lastBlock # undefined
  /\ missing.lastBlock.thrown
  /\ missing.outcome = Ok(undefined)
  /\ missing.graphqlEndpoint \in DOMAIN networksToFetch

-----------------------------------------------------------------------------
(* The events that fetchEvents returns *)

\* a call of fetchEvents returned the events of the response it was given
EventsReturned ==
  IF fetching.op # "fetchEvents" THEN FALSE
  ELSE IF fetching.pc # "returned" \/ fetching.answer = undefined THEN FALSE
  ELSE ~fetching.outcome.thrown

\* the entries of the response that are at the best tip, and the entries
\* that are to be returned: all but them when there are several of them
BestTipEntries(fetched) ==
  {i \in DOMAIN fetched : fetched[i].blockInfo.distanceFromMaxBlockHeight = 0}

KeptEntries(fetched) ==
  IF Cardinality(BestTipEntries(fetched)) > 1
  THEN DOMAIN fetched \ BestTipEntries(fetched)
  ELSE DOMAIN fetched

\* the returned events are those of the kept entries, in their order
ReturnsKept(fetched, returned) ==
  /\ Len(returned) = Cardinality(KeptEntries(fetched))
  /\ \A i \in KeptEntries(fetched) :
       LET k == Cardinality({j \in KeptEntries(fetched) : j <= i})
       IN /\ returned[k].blockHash = fetched[i].blockInfo.stateHash
          /\ returned[k].transactionHash = fetched[i].transactionInfo.hash
          /\ Len(returned[k].events) = Len(fetched[i].eventData)

\* C21: when fetchEvents returns, it has dropped every block at the best tip
\* (distanceFromMaxBlockHeight equal to 0) if the response holds more than one
\* such block, and kept the block if there is exactly one; the blocks that are
\* not at the best tip are all returned, in their original order.
C21_BestTipFilter ==
  EventsReturned =>
    ReturnsKept(fetching.answer.response.data.events, fetching.outcome.value)

\* two blocks at the best tip were dropped and the block between them returned
C21_Witness ==
  /\ EventsReturned
  /\ Len(fetching.answer.response.data.events) = 3
  /\ BestTipEntries(fetching.answer.response.data.events) = {1, 3}
  /\ Len(fetching.outcome.value) = 1
  /\ fetching.outcome.value[1].blockHash = "3NKc"

\* the only block at the best tip was returned, after a block before it
C21_OneBestTipKept ==
  /\ EventsReturned
  /\ BestTipEntries(fetching.answer.response.data.events) = {2}
  /\ Len(fetching.outcome.value) = 2
  /\ fetching.outcome.value[2].blockHash = "3NKa"

=============================================================================
